---- MODULE Spec2Model ----
(***************************************************************************)
(* The aggregation engine of src/assessment/process.py: load_data and the  *)
(* seven query functions, over a Dataset of review records.                *)
(*                                                                         *)
(* Text is a sequence of one-character strings, so that strip(), lower(),  *)
(* "in", startswith(), split() and int() are computed, not assumed.        *)
(* A Python value is a tagged record: a str, None, or an int.              *)
(* A review is a function from the column names it has to values.          *)
(***************************************************************************)
EXTENDS Integers, Sequences, FiniteSets, TLC

VARIABLES file, pc, acc, data, call, result, threads

vars == <<file, pc, acc, data, call, result, threads>>

(***************************************************************************)
(* Bounds of the model.                                                    *)
(***************************************************************************)
MaxRows == 3

(***************************************************************************)
(* Python values.                                                          *)
(***************************************************************************)
Str(s) == [t |-> "str", s |-> s]

NoneVal == [t |-> "None"]

IntVal(n) == [t |-> "int", n |-> n]

EmptyStr == Str(<< >>)

Unknown == Str(<<"U", "n", "k", "n", "o", "w", "n">>)

UpperSeq ==
  <<"A", "B", "C", "D", "E", "F", "G", "H", "I", "J", "K", "L", "M",
    "N", "O", "P", "Q", "R", "S", "T", "U", "V", "W", "X", "Y", "Z">>

LowerSeq ==
  <<"a", "b", "c", "d", "e", "f", "g", "h", "i", "j", "k", "l", "m",
    "n", "o", "p", "q", "r", "s", "t", "u", "v", "w", "x", "y", "z">>

DigitSeq == <<"0", "1", "2", "3", "4", "5", "6", "7", "8", "9">>

Whitespace == {" ", "\t", "\n", "\r"}

IsDigit(c) == \E i \in 1..Len(DigitSeq) : DigitSeq[i] = c

DigitVal(c) == (CHOOSE i \in 1..Len(DigitSeq) : DigitSeq[i] = c) - 1

\* str.lower() on one character
LowerChar(c) ==
  IF \E i \in 1..Len(UpperSeq) : UpperSeq[i] = c
  THEN LowerSeq[CHOOSE i \in 1..Len(UpperSeq) : UpperSeq[i] = c]
  ELSE c

\* str.lower()
Lower(s) == [i \in 1..Len(s) |-> LowerChar(s[i])]

\* str.strip(): drops leading and trailing whitespace
Strip(s) ==
  LET keep == {i \in 1..Len(s) : s[i] \notin Whitespace}
  IN  IF keep = {} THEN << >>
      ELSE LET lo == CHOOSE i \in keep : \A j \in keep : i <= j
               hi == CHOOSE i \in keep : \A j \in keep : j <= i
           IN  SubSeq(s, lo, hi)

\* the decimal digits of a natural number
RECURSIVE NatDigits(_)
NatDigits(n) ==
  IF n < 10 THEN <<DigitSeq[n + 1]>>
  ELSE NatDigits(n \div 10) \o <<DigitSeq[(n % 10) + 1]>>

\* str(value)
PyStr(v) ==
  CASE v.t = "str" -> v.s
    [] v.t = "None" -> <<"N", "o", "n", "e">>
    [] v.t = "int" -> IF v.n < 0 THEN <<"-">> \o NatDigits(0 - v.n)
                      ELSE NatDigits(v.n)

\* _norm(text) = str(text).strip().lower()
Norm(v) == Lower(Strip(PyStr(v)))

\* needle in hay  (substring test on str)
Contains(hay, needle) ==
  \E i \in 0..(Len(hay) - Len(needle)) :
     SubSeq(hay, i + 1, i + Len(needle)) = needle

\* hay.startswith(prefix)
StartsWith(hay, prefix) ==
  /\ Len(prefix) <= Len(hay)
  /\ SubSeq(hay, 1, Len(prefix)) = prefix

\* str.isdigit(): non-empty and all digits
AllDigits(s) == Len(s) > 0 /\ \A i \in 1..Len(s) : IsDigit(s[i])

RECURSIVE DecimalValue(_)
DecimalValue(s) ==
  IF Len(s) = 0 THEN 0
  ELSE 10 * DecimalValue(SubSeq(s, 1, Len(s) - 1)) + DigitVal(s[Len(s)])

\* a slip: a string that is no integer taken as 0 instead of skipped
PyIntLenient(v) ==
  CASE v.t = "int" -> [exc |-> "none", n |-> v.n]
    [] v.t = "None" -> [exc |-> "TypeError", n |-> 0]
    [] v.t = "str" ->
         LET s == Strip(v.s)
             signed == Len(s) > 0 /\ s[1] \in {"+", "-"}
             body == IF signed THEN SubSeq(s, 2, Len(s)) ELSE s
         IN  IF AllDigits(body)
             THEN [exc |-> "none",
                   n |-> IF signed /\ s[1] = "-" THEN 0 - DecimalValue(body)
                         ELSE DecimalValue(body)]
             ELSE [exc |-> "none", n |-> 0]

\* int(value): an int is returned as is; a str is stripped, may carry one
\* sign, and must then be decimal digits, else ValueError; None is TypeError
\* (int() accepts a string, a bytes-like object or a number).
PyInt(v) ==
  CASE v.t = "int" -> [exc |-> "none", n |-> v.n]
    [] v.t = "None" -> [exc |-> "TypeError", n |-> 0]
    [] v.t = "str" ->
         LET s == Strip(v.s)
             signed == Len(s) > 0 /\ s[1] \in {"+", "-"}
             body == IF signed THEN SubSeq(s, 2, Len(s)) ELSE s
         IN  IF AllDigits(body)
             THEN [exc |-> "none",
                   n |-> IF signed /\ s[1] = "-" THEN 0 - DecimalValue(body)
                         ELSE DecimalValue(body)]
             ELSE [exc |-> "ValueError", n |-> 0]

\* str.split(sep) for a one-character separator
RECURSIVE Split(_, _)
Split(s, sep) ==
  IF \A i \in 1..Len(s) : s[i] # sep THEN <<s>>
  ELSE LET k == CHOOSE i \in 1..Len(s) :
                  s[i] = sep /\ \A j \in 1..(i - 1) : s[j] # sep
       IN  <<SubSeq(s, 1, k - 1)>> \o Split(SubSeq(s, k + 1, Len(s)), sep)

\* dict.get(key, default)
Get(review, key, default) ==
  IF key \in DOMAIN review THEN review[key] ELSE default


\* review.get("Branch", ""), review.get("Reviewer_Location", "") and
\* review.get("Year_Month", ""): the fields read as text to match
BranchText(review) == Get(review, "Branch", EmptyStr)

LocationText(review) == Get(review, "Reviewer_Location", EmptyStr)

YearMonthText(review) == Get(review, "Year_Month", EmptyStr)

\* review.get("Branch", "Unknown") and review.get("Reviewer_Location",
\* "Unknown"): the fields read as group keys
BranchKey(review) == Get(review, "Branch", Unknown)

LocationKey(review) == Get(review, "Reviewer_Location", Unknown)

\* review.get("Rating", 0)
RatingOf(review) == Get(review, "Rating", IntVal(0))

\* a list, a 2-tuple and a dict (the sequence of its entries, in insertion
\* order)
List(items) == [t |-> "list", items |-> items]

Pair(a, b) == [t |-> "tuple", items |-> <<a, b>>]

Dict(entries) == [t |-> "dict", items |-> entries]

\* a returned value, and a raised exception
Ret(v) == [exc |-> "none", value |-> v]

Raise(e) == [exc |-> e]

\* no call has returned
NoResult == [exc |-> "no call"]

\* a quotient sum / count: the float is kept as the exact fraction
Float(s, c) == [t |-> "float", sum |-> s, count |-> c]

(***************************************************************************)
(* load_data: csv.DictReader over the file.  The header names the columns; *)
(* a row shorter than the header gets None for the columns it lacks.       *)
(***************************************************************************)
\* the dict DictReader builds from one row
RowDict(header, row) ==
  [k \in {header[i] : i \in 1..Len(header)} |->
     LET i == CHOOSE j \in 1..Len(header) : header[j] = k
     IN  IF i <= Len(row) THEN Str(row[i]) ELSE NoneVal]

\* a slip: the rows read so far returned when an exception is caught
LoadFailPartial(partial) == partial

\* what load_data returns when an exception is caught
LoadFailValue(partial) == << >>

Open ==
  /\ pc = "start"
  /\ IF file.exists
     THEN /\ pc' = "reading"
          /\ acc' = << >>
          /\ UNCHANGED <<data, call, result>>
     ELSE /\ pc' = "returned"
          /\ data' = LoadFailValue(acc)
          /\ call' = [op |-> "load_data", error |-> "FileNotFoundError"]
          /\ result' = Ret(List(data'))
          /\ UNCHANGED acc
  /\ UNCHANGED <<file, threads>>

ReadRow ==
  /\ pc = "reading"
  /\ Len(acc) < Len(file.rows)
  /\ acc' = Append(acc, RowDict(file.header, file.rows[Len(acc) + 1]))
  /\ UNCHANGED <<file, pc, data, call, result, threads>>

\* the read or the parse raises (decoding error, csv.Error, I/O error)
ReadError ==
  /\ pc = "reading"
  /\ pc' = "returned"
  /\ data' = LoadFailValue(acc)
  /\ call' = [op |-> "load_data", error |-> "Exception",
              rows_read |-> Len(acc)]
  /\ result' = Ret(List(data'))
  /\ acc' = << >>
  /\ UNCHANGED <<file, threads>>

LoadReturn ==
  /\ pc = "reading"
  /\ Len(acc) = Len(file.rows)
  /\ pc' = "returned"
  /\ data' = acc
  /\ call' = [op |-> "load_data", error |-> "none"]
  /\ result' = Ret(List(data'))
  /\ acc' = << >>
  /\ UNCHANGED <<file, threads>>

(***************************************************************************)
(* filter_reviews_by_park                                                  *)
(***************************************************************************)
\* the test of one review against the normalised park name
BranchMatches(review, target) ==
  Contains(Norm(BranchText(review)), target)

\* filtered = []
FilterInit == << >>

\* one pass of the loop body, on one review
FilterStep(prev, review, target) ==
  IF BranchMatches(review, target) THEN Append(prev, review) ELSE prev

RECURSIVE FilterLoop(_, _, _)
FilterLoop(d, target, n) ==
  IF n = 0 THEN FilterInit
  ELSE FilterStep(FilterLoop(d, target, n - 1), d[n], target)

\* a slip: no guard against the empty park name
filter_reviews_unguarded(d, park_name) ==
  Ret(List(FilterLoop(d, Norm(park_name), Len(d))))

filter_reviews_by_park(d, park_name) ==
  LET target == Norm(park_name)
  IN  IF Len(target) = 0 THEN Ret(List(<< >>))
      ELSE Ret(List(FilterLoop(d, target, Len(d))))

(***************************************************************************)
(* count_reviews_by_park_and_location                                      *)
(***************************************************************************)
\* a slip: "or" in place of "and" in the test of a review
RECURSIVE CountLoopEither(_, _, _, _)
CountLoopEither(d, target_park, target_location, n) ==
  IF n = 0 THEN 0
  ELSE LET prev == CountLoopEither(d, target_park, target_location, n - 1)
           branch == Norm(BranchText(d[n]))
           reviewer_location == Norm(LocationText(d[n]))
       IN  IF Contains(branch, target_park)
              \/ Contains(reviewer_location, target_location)
           THEN prev + 1
           ELSE prev

\* count = 0
CountInit == 0

\* one pass of the loop body, on one review
CountStep(prev, review, target_park, target_location) ==
  LET branch == Norm(BranchText(review))
      reviewer_location == Norm(LocationText(review))
  IN  IF Contains(branch, target_park)
         /\ Contains(reviewer_location, target_location)
      THEN prev + 1
      ELSE prev

RECURSIVE CountLoop(_, _, _, _)
CountLoop(d, target_park, target_location, n) ==
  IF n = 0 THEN CountInit
  ELSE CountStep(CountLoop(d, target_park, target_location, n - 1), d[n],
                 target_park, target_location)

count_reviews_by_park_and_location(d, park_name, location) ==
  LET target_park == Norm(park_name)
      target_location == Norm(location)
  IN  IF Len(target_park) = 0 \/ Len(target_location) = 0 THEN Ret(IntVal(0))
      ELSE Ret(IntVal(CountLoop(d, target_park, target_location, Len(d))))

(***************************************************************************)
(* calculate_average_rating_by_year                                        *)
(***************************************************************************)
\* total_rating = 0; count = 0
YearInit == [exc |-> "none", total_rating |-> 0, count |-> 0]

\* one pass of the loop body, on one review
YearStep(prev, review, target_park, target_year) ==
  LET review_date == Strip(PyStr(YearMonthText(review)))
      rating == PyInt(RatingOf(review))
  IN  IF prev.exc # "none" THEN prev
      ELSE IF BranchMatches(review, target_park)
              /\ StartsWith(review_date, target_year)
      THEN CASE rating.exc = "ValueError" -> prev
             [] rating.exc = "TypeError" ->
                  [prev EXCEPT !.exc = "TypeError"]
             [] OTHER ->
                  [prev EXCEPT !.total_rating = @ + rating.n,
                               !.count = @ + 1]
      ELSE prev

RECURSIVE YearLoop(_, _, _, _)
YearLoop(d, target_park, target_year, n) ==
  IF n = 0 THEN YearInit
  ELSE YearStep(YearLoop(d, target_park, target_year, n - 1), d[n],
                target_park, target_year)

\* what the function returns once the loop has ended
YearResult(st) ==
  IF st.exc # "none" THEN Raise(st.exc)
  ELSE IF st.count = 0 THEN Ret(NoneVal)
  ELSE Ret(Float(st.total_rating, st.count))

calculate_average_rating_by_year(d, park_name, year) ==
  LET target_park == Norm(park_name)
      target_year == Strip(PyStr(year))
  IN  IF Len(target_park) = 0 \/ Len(target_year) # 4
         \/ ~AllDigits(target_year)
      THEN Ret(NoneVal)
      ELSE YearResult(YearLoop(d, target_park, target_year, Len(d)))

(***************************************************************************)
(* count_reviews_per_park.  A dict is the sequence of its entries in       *)
(* insertion order.                                                        *)
(***************************************************************************)
HasKey(dict, k) == \E i \in 1..Len(dict) : dict[i].key = k

IndexOf(dict, k) == CHOOSE i \in 1..Len(dict) : dict[i].key = k

Keys(dict) == {dict[i].key : i \in 1..Len(dict)}

\* counts = {}
PerParkInit == << >>

\* one pass of the loop body, on one review
PerParkStep(counts, review) ==
  LET branch == BranchKey(review)
  IN  IF HasKey(counts, branch)
      THEN [counts EXCEPT ![IndexOf(counts, branch)].count = @ + 1]
      ELSE Append(counts, [key |-> branch, count |-> 1])

RECURSIVE PerParkLoop(_, _)
PerParkLoop(d, n) ==
  IF n = 0 THEN PerParkInit
  ELSE PerParkStep(PerParkLoop(d, n - 1), d[n])

\* a slip: a review without a Branch field is left out of the counts
RECURSIVE PerParkLoopWithBranch(_, _)
PerParkLoopWithBranch(d, n) ==
  IF n = 0 THEN << >>
  ELSE LET counts == PerParkLoopWithBranch(d, n - 1)
           branch == BranchKey(d[n])
       IN  IF "Branch" \notin DOMAIN d[n] THEN counts
           ELSE IF HasKey(counts, branch)
           THEN [counts EXCEPT ![IndexOf(counts, branch)].count = @ + 1]
           ELSE Append(counts, [key |-> branch, count |-> 1])

count_reviews_with_branch(d) == Ret(Dict(PerParkLoopWithBranch(d, Len(d))))

count_reviews_per_park(d) == Ret(Dict(PerParkLoop(d, Len(d))))

(***************************************************************************)
(* get_top_locations_by_rating                                             *)
(***************************************************************************)
\* a < b on two quotients with positive counts
FloatLess(a, b) == a.sum * b.count < b.sum * a.count

\* adds one rating to the [sum, count] entry of key k, creating it at the end
AddRating(dict, k, rating) ==
  LET d1 == IF HasKey(dict, k) THEN dict
            ELSE Append(dict, [key |-> k, sum |-> 0, count |-> 0])
      i == IndexOf(d1, k)
  IN  [d1 EXCEPT ![i].sum = @ + rating, ![i].count = @ + 1]

\* location_ratings = {}
TopInit == [exc |-> "none", location_ratings |-> << >>]

\* one pass of the loop body, on one review
TopStep(prev, review, target_park) ==
  LET location == LocationKey(review)
      rating == PyInt(RatingOf(review))
  IN  IF prev.exc # "none" THEN prev
      ELSE IF ~BranchMatches(review, target_park) THEN prev
      ELSE CASE rating.exc = "ValueError" -> prev
             [] rating.exc = "TypeError" ->
                  [prev EXCEPT !.exc = "TypeError"]
             [] OTHER ->
                  [prev EXCEPT !.location_ratings =
                                 AddRating(@, location, rating.n)]

RECURSIVE TopLoop(_, _, _)
TopLoop(d, target_park, n) ==
  IF n = 0 THEN TopInit
  ELSE TopStep(TopLoop(d, target_park, n - 1), d[n], target_park)

\* the (location, average) pairs of the groups with count > 0, in dict order
RECURSIVE Averages(_, _)
Averages(dict, n) ==
  IF n = 0 THEN << >>
  ELSE LET prev == Averages(dict, n - 1)
       IN  IF dict[n].count > 0
           THEN Append(prev, [key |-> dict[n].key,
                              avg |-> Float(dict[n].sum, dict[n].count)])
           ELSE prev

\* a slip: an unstable sort, an item put before the items of equal average
InsertDescBeforeEqual(sorted, x) ==
  LET before == {i \in 1..Len(sorted) : FloatLess(x.avg, sorted[i].avg)}
      k == Cardinality(before)
  IN  SubSeq(sorted, 1, k) \o <<x>> \o SubSeq(sorted, k + 1, Len(sorted))

\* where list.sort(key=avg, reverse=True) puts item x among the sorted items:
\* after every item whose average is not smaller (the sort is stable)
InsertDesc(sorted, x) ==
  LET before == {i \in 1..Len(sorted) : ~FloatLess(sorted[i].avg, x.avg)}
      k == Cardinality(before)
  IN  SubSeq(sorted, 1, k) \o <<x>> \o SubSeq(sorted, k + 1, Len(sorted))

RECURSIVE SortDesc(_, _)
SortDesc(items, n) ==
  IF n = 0 THEN << >>
  ELSE InsertDesc(SortDesc(items, n - 1), items[n])

\* a slip: the list not truncated
SliceNothing(items, top_n) == items

\* items[:top_n]
SlicePrefix(items, top_n) ==
  LET stop == IF top_n >= 0 THEN top_n ELSE Len(items) + top_n
      k == IF stop < 0 THEN 0 ELSE IF stop > Len(items) THEN Len(items) ELSE stop
  IN  SubSeq(items, 1, k)

\* what the function returns once the loop has ended
TopResult(st, top_n) ==
  LET averages == Averages(st.location_ratings, Len(st.location_ratings))
      top_results == SlicePrefix(SortDesc(averages, Len(averages)), top_n.n)
  IN  IF st.exc # "none" THEN Raise(st.exc)
      ELSE Ret(Pair(
             List([i \in 1..Len(top_results) |-> top_results[i].key]),
             List([i \in 1..Len(top_results) |-> top_results[i].avg])))

get_top_locations_by_rating(d, park_name, top_n) ==
  LET target_park == Norm(park_name)
  IN  IF Len(target_park) = 0 THEN Ret(Pair(List(<< >>), List(<< >>)))
      ELSE TopResult(TopLoop(d, target_park, Len(d)), top_n)

(***************************************************************************)
(* calculate_monthly_averages                                              *)
(***************************************************************************)
month_names ==
  << Str(<<"J", "a", "n">>), Str(<<"F", "e", "b">>), Str(<<"M", "a", "r">>),
     Str(<<"A", "p", "r">>), Str(<<"M", "a", "y">>), Str(<<"J", "u", "n">>),
     Str(<<"J", "u", "l">>), Str(<<"A", "u", "g">>), Str(<<"S", "e", "p">>),
     Str(<<"O", "c", "t">>), Str(<<"N", "o", "v">>), Str(<<"D", "e", "c">>) >>

\* a slip: a month without data reported as absent
NoDataAverageAbsent == NoneVal

\* the rating a month without data reports
NoDataAverage == IntVal(0)

\* month_stats = {i: {"sum": 0, "count": 0} for i in range(1, 13)}
MonthInit ==
  [exc |-> "none",
   month_stats |-> [i \in 1..12 |-> [sum |-> 0, count |-> 0]]]

\* one pass of the loop body, on one review
MonthStep(prev, review, target_park) ==
  LET year_month == Strip(PyStr(YearMonthText(review)))
      parts == Split(year_month, "-")
      month == PyInt(Str(parts[2]))
      rating == PyInt(RatingOf(review))
  IN  IF prev.exc # "none" THEN prev
      ELSE IF ~BranchMatches(review, target_park) THEN prev
      ELSE IF ~Contains(year_month, <<"-">>) THEN prev
      ELSE IF Len(parts) # 2 THEN prev
      ELSE IF month.exc = "ValueError" THEN prev
      ELSE CASE rating.exc = "ValueError" -> prev
             [] rating.exc = "TypeError" ->
                  [prev EXCEPT !.exc = "TypeError"]
             [] OTHER ->
                  IF 1 <= month.n /\ month.n <= 12
                  THEN [prev EXCEPT
                          !.month_stats[month.n].sum = @ + rating.n,
                          !.month_stats[month.n].count = @ + 1]
                  ELSE prev

RECURSIVE MonthLoop(_, _, _)
MonthLoop(d, target_park, n) ==
  IF n = 0 THEN MonthInit
  ELSE MonthStep(MonthLoop(d, target_park, n - 1), d[n], target_park)

\* what the function returns once the loop has ended
MonthResult(st) ==
  IF st.exc # "none" THEN Raise(st.exc)
  ELSE Ret(Pair(List(month_names),
                List([i \in 1..12 |->
                        IF st.month_stats[i].count # 0
                        THEN Float(st.month_stats[i].sum,
                                   st.month_stats[i].count)
                        ELSE NoDataAverage])))

calculate_monthly_averages(d, park_name) ==
  LET target_park == Norm(park_name)
  IN  IF Len(target_park) = 0 THEN Ret(Pair(List(<< >>), List(<< >>)))
      ELSE MonthResult(MonthLoop(d, target_park, Len(d)))

(***************************************************************************)
(* calculate_park_location_averages                                        *)
(***************************************************************************)
\* a slip: the parks grouped by the normalised branch
AddParkRatingNormalised(stats, branch, location, rating) ==
  LET b == Str(Norm(branch))
      s1 == IF HasKey(stats, b) THEN stats
            ELSE Append(stats, [key |-> b, locations |-> << >>])
      i == IndexOf(s1, b)
  IN  [s1 EXCEPT ![i].locations = AddRating(@, location, rating)]

\* stats[branch][location] += rating, creating the entries it needs
AddParkRating(stats, branch, location, rating) ==
  LET s1 == IF HasKey(stats, branch) THEN stats
            ELSE Append(stats, [key |-> branch, locations |-> << >>])
      i == IndexOf(s1, branch)
  IN  [s1 EXCEPT ![i].locations = AddRating(@, location, rating)]

\* stats = {}
ParkLocInit == [exc |-> "none", stats |-> << >>]

\* one pass of the loop body, on one review
ParkLocStep(prev, review) ==
  LET branch == BranchKey(review)
      location == LocationKey(review)
      rating == PyInt(RatingOf(review))
  IN  IF prev.exc # "none" THEN prev
      ELSE CASE rating.exc = "ValueError" -> prev
             [] rating.exc = "TypeError" ->
                  [prev EXCEPT !.exc = "TypeError"]
             [] OTHER ->
                  [prev EXCEPT !.stats =
                                 AddParkRating(@, branch, location, rating.n)]

RECURSIVE ParkLocLoop(_, _)
ParkLocLoop(d, n) ==
  IF n = 0 THEN ParkLocInit
  ELSE ParkLocStep(ParkLocLoop(d, n - 1), d[n])

\* what the function returns once the loop has ended
ParkLocResult(st) ==
  IF st.exc # "none" THEN Raise(st.exc)
  ELSE Ret(Dict([i \in 1..Len(st.stats) |->
                   [key |-> st.stats[i].key,
                    locations |-> Averages(st.stats[i].locations,
                                           Len(st.stats[i].locations))]]))

calculate_park_location_averages(d) == ParkLocResult(ParkLocLoop(d, Len(d)))

(***************************************************************************)
(* The inputs: the files load_data may be given and the arguments of the   *)
(* queries.                                                                *)
(***************************************************************************)
T_Ab == <<"A", "b">>
T_cab == <<"c", "a", "b", " ">>
T_Hk == <<"H", "k">>
T_UK == <<"U", "K">>
T_US == <<"U", "S">>
T_2019_5 == <<"2", "0", "1", "9", "-", "5">>
T_2019_12 == <<"2", "0", "1", "9", "-", "1", "2">>
T_2020_x == <<"2", "0", "2", "0", "-", "x">>
T_2019 == <<"2", "0", "1", "9">>
T_4 == <<"4">>
T_2 == <<"2">>
T_4p0 == <<"4", ".", "0">>
T_sp5 == <<" ", "5">>

Row(branch, location, year_month, rating, width) ==
  [cells |-> [Review_ID |-> <<"1">>, Branch |-> branch,
              Reviewer_Location |-> location, Year_Month |-> year_month,
              Rating |-> rating],
   width |-> width]

\* the rows a file is made of; width is the number of cells the line has
RowPool ==
  { Row(T_Ab, T_UK, T_2019_5, T_4, 4),
    Row(T_Ab, T_US, T_2019_5, T_2, 4),
    Row(T_cab, T_US, T_2019_12, T_4, 4),
    Row(T_Ab, T_UK, T_2020_x, T_4p0, 4),
    Row(T_Hk, T_UK, T_2019, T_sp5, 4),
    Row(T_Ab, T_UK, T_2019_5, << >>, 3),
    Row(T_Ab, T_US, T_2019_5, T_4, 1) }

\* the header lines: column orders, and files that lack columns
HeaderPool ==
  { <<"Branch", "Reviewer_Location", "Year_Month", "Rating">>,
    <<"Rating", "Year_Month", "Reviewer_Location", "Branch">>,
    <<"Branch", "Reviewer_Location", "Year_Month">>,
    <<"Branch">>,
    <<"Review_ID">> }

\* the cells of a line under a header
Cells(row, header) ==
  LET w == IF row.width < Len(header) THEN row.width ELSE Len(header)
  IN  [i \in 1..w |-> row.cells[header[i]]]

SeqsUpTo(S, n) == UNION {[1..k -> S] : k \in 0..n}

Files ==
  {[exists |-> FALSE, header |-> << >>, rows |-> << >>]}
  \cup {[exists |-> TRUE, header |-> h, rows |-> rs] :
          h \in HeaderPool, rs \in SeqsUpTo(RowPool, MaxRows)}

\* the file as load_data reads it: header and lines of cells
FileOf(f) ==
  [exists |-> f.exists, header |-> f.header,
   rows |-> [i \in 1..Len(f.rows) |-> Cells(f.rows[i], f.header)]]

ParkQueries ==
  { Str(<< >>), Str(<<" ">>), Str(<<" ", "A", "B", " ">>), Str(<<"o", "n">>) }

LocationQueries == { Str(<< >>), Str(<<" ", "u", "K">>) }

YearQueries ==
  { Str(T_2019), Str(<<"2", "0", "1", "9", " ">>), Str(<<"2", "0", "1">>),
    IntVal(2019) }

TopNs == { IntVal(0 - 1), IntVal(0), IntVal(1), IntVal(2), IntVal(10) }

(***************************************************************************)
(* Callers of the query functions.  A call has a frame of its own: its     *)
(* arguments, its place in the loop over the Dataset, and the local        *)
(* accumulators of the function it runs.                                   *)
(***************************************************************************)
Threads == {"t1", "t2"}

Operations ==
  { "filter_reviews_by_park", "count_reviews_by_park_and_location",
    "calculate_average_rating_by_year", "count_reviews_per_park",
    "get_top_locations_by_rating", "calculate_monthly_averages",
    "calculate_park_location_averages" }

\* the value each function gives its accumulators before its loop
InitLocal(op) ==
  CASE op = "filter_reviews_by_park" -> FilterInit
    [] op = "count_reviews_by_park_and_location" -> CountInit
    [] op = "calculate_average_rating_by_year" -> YearInit
    [] op = "count_reviews_per_park" -> PerParkInit
    [] op = "get_top_locations_by_rating" -> TopInit
    [] op = "calculate_monthly_averages" -> MonthInit
    [] op = "calculate_park_location_averages" -> ParkLocInit

NoFrame ==
  [pc |-> "idle", call |-> [op |-> "none"], i |-> 0, result |-> NoResult,
   local |-> [op \in Operations |-> InitLocal(op)]]

(***************************************************************************)
(* The program: load once, then any sequence of queries.                   *)
(***************************************************************************)
Init ==
  /\ file \in {FileOf(f) : f \in Files}
  /\ pc = "start"
  /\ acc = << >>
  /\ data = << >>
  /\ call = [op |-> "none"]
  /\ result = NoResult
  /\ threads = [t \in Threads |-> NoFrame]

FilterReviewsByPark ==
  /\ pc = "ready"
  /\ pc' = "returned"
  /\ \E q \in ParkQueries :
       /\ call' = [op |-> "filter_reviews_by_park", park_name |-> q]
       /\ result' = filter_reviews_by_park(data, q)
  /\ UNCHANGED <<file, acc, data, threads>>

CountReviewsByParkAndLocation ==
  /\ pc = "ready"
  /\ pc' = "returned"
  /\ \E q \in ParkQueries, l \in LocationQueries :
       /\ call' = [op |-> "count_reviews_by_park_and_location",
                   park_name |-> q, location |-> l]
       /\ result' = count_reviews_by_park_and_location(data, q, l)
  /\ UNCHANGED <<file, acc, data, threads>>

CalculateAverageRatingByYear ==
  /\ pc = "ready"
  /\ pc' = "returned"
  /\ \E q \in ParkQueries, y \in YearQueries :
       /\ call' = [op |-> "calculate_average_rating_by_year",
                   park_name |-> q, year |-> y]
       /\ result' = calculate_average_rating_by_year(data, q, y)
  /\ UNCHANGED <<file, acc, data, threads>>

CountReviewsPerPark ==
  /\ pc = "ready"
  /\ pc' = "returned"
  /\ call' = [op |-> "count_reviews_per_park"]
  /\ result' = count_reviews_per_park(data)
  /\ UNCHANGED <<file, acc, data, threads>>

GetTopLocationsByRating ==
  /\ pc = "ready"
  /\ pc' = "returned"
  /\ \E q \in ParkQueries, n \in TopNs :
       /\ call' = [op |-> "get_top_locations_by_rating",
                   park_name |-> q, top_n |-> n]
       /\ result' = get_top_locations_by_rating(data, q, n)
  /\ UNCHANGED <<file, acc, data, threads>>

CalculateMonthlyAverages ==
  /\ pc = "ready"
  /\ pc' = "returned"
  /\ \E q \in ParkQueries :
       /\ call' = [op |-> "calculate_monthly_averages", park_name |-> q]
       /\ result' = calculate_monthly_averages(data, q)
  /\ UNCHANGED <<file, acc, data, threads>>

CalculateParkLocationAverages ==
  /\ pc = "ready"
  /\ pc' = "returned"
  /\ call' = [op |-> "calculate_park_location_averages"]
  /\ result' = calculate_park_location_averages(data)
  /\ UNCHANGED <<file, acc, data, threads>>

\* the caller has used the result and is ready for its next query
NextQuery ==
  /\ pc = "returned"
  /\ pc' = "ready"
  /\ call' = [op |-> "none"]
  /\ result' = NoResult
  /\ UNCHANGED <<file, acc, data, threads>>

Next ==
  \/ Open
  \/ ReadRow
  \/ ReadError
  \/ LoadReturn
  \/ FilterReviewsByPark
  \/ CountReviewsByParkAndLocation
  \/ CalculateAverageRatingByYear
  \/ CountReviewsPerPark
  \/ GetTopLocationsByRating
  \/ CalculateMonthlyAverages
  \/ CalculateParkLocationAverages
  \/ NextQuery

Spec == Init /\ [][Next]_vars

(***************************************************************************)
(* Concurrent callers: after the load, each thread calls query functions   *)
(* on the one Dataset; a step of a thread is the entry of a function, one  *)
(* pass of its loop over the Dataset, or its return.                       *)
(***************************************************************************)
\* a slip: the accumulators kept in one place shared by all calls
SharedCell(t) == "t1"

\* the frame that holds the accumulators of the call of thread t: its own
Cell(t) == t

\* the files and the calls of the concurrent callers
ConcRowPool ==
  { Row(T_Ab, T_UK, T_2019_5, T_4, 4),
    Row(T_Ab, T_US, T_2019_5, T_2, 4),
    Row(T_Ab, T_UK, T_2019_5, << >>, 3) }

ConcFiles ==
  {[exists |-> TRUE,
    header |-> <<"Branch", "Reviewer_Location", "Year_Month", "Rating">>,
    rows |-> rs] : rs \in SeqsUpTo(ConcRowPool, MaxRows)}

ConcCalls ==
  LET park == Str(<<" ", "A", "B", " ">>)
  IN  { [op |-> "filter_reviews_by_park", park_name |-> park],
        [op |-> "filter_reviews_by_park", park_name |-> Str(<<" ">>)],
        [op |-> "count_reviews_by_park_and_location", park_name |-> park,
         location |-> Str(<<" ", "u", "K">>)],
        [op |-> "calculate_average_rating_by_year", park_name |-> park,
         year |-> Str(T_2019)],
        [op |-> "count_reviews_per_park"],
        [op |-> "get_top_locations_by_rating", park_name |-> park,
         top_n |-> IntVal(1)],
        [op |-> "calculate_monthly_averages", park_name |-> park],
        [op |-> "calculate_park_location_averages"] }

\* the function returns before its loop
EarlyReturn(c) ==
  CASE c.op = "filter_reviews_by_park" -> Len(Norm(c.park_name)) = 0
    [] c.op = "count_reviews_by_park_and_location" ->
         Len(Norm(c.park_name)) = 0 \/ Len(Norm(c.location)) = 0
    [] c.op = "calculate_average_rating_by_year" ->
         \/ Len(Norm(c.park_name)) = 0
         \/ Len(Strip(PyStr(c.year))) # 4
         \/ ~AllDigits(Strip(PyStr(c.year)))
    [] c.op = "get_top_locations_by_rating" -> Len(Norm(c.park_name)) = 0
    [] c.op = "calculate_monthly_averages" -> Len(Norm(c.park_name)) = 0
    [] OTHER -> FALSE

\* what it then returns
EarlyValue(c) ==
  CASE c.op = "filter_reviews_by_park" -> Ret(List(<< >>))
    [] c.op = "count_reviews_by_park_and_location" -> Ret(IntVal(0))
    [] c.op = "calculate_average_rating_by_year" -> Ret(NoneVal)
    [] c.op = "get_top_locations_by_rating" ->
         Ret(Pair(List(<< >>), List(<< >>)))
    [] c.op = "calculate_monthly_averages" ->
         Ret(Pair(List(<< >>), List(<< >>)))

\* one pass of the loop of the function, on one review
StepLocal(c, st, review) ==
  CASE c.op = "filter_reviews_by_park" ->
         FilterStep(st, review, Norm(c.park_name))
    [] c.op = "count_reviews_by_park_and_location" ->
         CountStep(st, review, Norm(c.park_name), Norm(c.location))
    [] c.op = "calculate_average_rating_by_year" ->
         YearStep(st, review, Norm(c.park_name), Strip(PyStr(c.year)))
    [] c.op = "count_reviews_per_park" -> PerParkStep(st, review)
    [] c.op = "get_top_locations_by_rating" ->
         TopStep(st, review, Norm(c.park_name))
    [] c.op = "calculate_monthly_averages" ->
         MonthStep(st, review, Norm(c.park_name))
    [] c.op = "calculate_park_location_averages" -> ParkLocStep(st, review)

\* what the function returns once its loop has ended
ResultOf(c, st) ==
  CASE c.op = "filter_reviews_by_park" -> Ret(List(st))
    [] c.op = "count_reviews_by_park_and_location" -> Ret(IntVal(st))
    [] c.op = "calculate_average_rating_by_year" -> YearResult(st)
    [] c.op = "count_reviews_per_park" -> Ret(Dict(st))
    [] c.op = "get_top_locations_by_rating" -> TopResult(st, c.top_n)
    [] c.op = "calculate_monthly_averages" -> MonthResult(st)
    [] c.op = "calculate_park_location_averages" -> ParkLocResult(st)

ConcInit ==
  /\ Init
  /\ file \in {FileOf(f) : f \in ConcFiles}

\* thread t enters a function: the guard, then the accumulators
Enter(t) ==
  /\ pc = "ready"
  /\ threads[t].pc = "idle"
  /\ \E c \in ConcCalls :
       threads' =
         IF EarlyReturn(c)
         THEN [threads EXCEPT ![t].pc = "done", ![t].call = c,
                              ![t].result = EarlyValue(c)]
         ELSE [threads EXCEPT ![t].pc = "loop", ![t].call = c, ![t].i = 0,
                              ![Cell(t)].local[c.op] = InitLocal(c.op)]
  /\ UNCHANGED <<file, pc, acc, data, call, result>>

\* thread t runs the loop body on the next review of the Dataset
Iterate(t) ==
  /\ pc = "ready"
  /\ threads[t].pc = "loop"
  /\ threads[t].i < Len(data)
  /\ LET c == threads[t].call
     IN  threads' =
           [threads EXCEPT
              ![t].i = @ + 1,
              ![Cell(t)].local[c.op] =
                 StepLocal(c, @, data[threads[t].i + 1])]
  /\ UNCHANGED <<file, pc, acc, data, call, result>>

\* the loop of thread t has ended and the function returns
Return(t) ==
  /\ pc = "ready"
  /\ threads[t].pc = "loop"
  /\ threads[t].i >= Len(data)
  /\ LET c == threads[t].call
     IN  threads' =
           [threads EXCEPT
              ![t].pc = "done",
              ![t].result = ResultOf(c, threads[Cell(t)].local[c.op])]
  /\ UNCHANGED <<file, pc, acc, data, call, result>>

\* the caller has used the result; the frame of the call is gone
Leave(t) ==
  /\ pc = "ready"
  /\ threads[t].pc = "done"
  /\ threads' =
       [threads EXCEPT
          ![t].pc = "idle", ![t].call = [op |-> "none"], ![t].i = 0,
          ![t].result = NoResult,
          ![Cell(t)].local = NoFrame.local]
  /\ UNCHANGED <<file, pc, acc, data, call, result>>

ConcNext ==
  \/ Open
  \/ ReadRow
  \/ ReadError
  \/ LoadReturn
  \/ NextQuery
  \/ \E t \in Threads : Enter(t)
  \/ \E t \in Threads : Iterate(t)
  \/ \E t \in Threads : Return(t)
  \/ \E t \in Threads : Leave(t)

ConcSpec == ConcInit /\ [][ConcNext]_vars

(***************************************************************************)
(* Vocabulary of the properties.                                           *)
(***************************************************************************)
Returned(op) == pc = "returned" /\ call.op = op

\* the two sequences of a returned pair of lists
First(res) == res.value.items[1].items

Second(res) == res.value.items[2].items

\* the pair of two empty lists
EmptyPair == Ret(Pair(List(<< >>), List(<< >>)))

\* the park query is empty or whitespace-only
EmptyQuery(q) == Len(Strip(PyStr(q))) = 0

\* the review's Branch, as text, contains the trimmed, lower-cased query
MatchesPark(review, q) ==
  LET branch == IF "Branch" \in DOMAIN review THEN PyStr(review["Branch"])
                ELSE << >>
  IN  Contains(Lower(Strip(branch)), Lower(Strip(PyStr(q))))

\* the review's Rating is a null value (a cell the line did not have)
NullRating(review) ==
  "Rating" \in DOMAIN review /\ review["Rating"] = NoneVal

\* a number that is zero
IsZero(v) ==
  \/ v.t = "int" /\ v.n = 0
  \/ v.t = "float" /\ v.sum = 0

(***************************************************************************)
(* C1: monthlyAverages returns, for every Dataset and every park query,    *)
(* exactly the 12 month labels Jan..Dec and exactly 12 averages, all 0     *)
(* when no record matches.                                                 *)
(***************************************************************************)
TwelveMonths(res, d, q) ==
  /\ res.exc = "none"
  /\ First(res) = month_names
  /\ Len(Second(res)) = 12
  /\ (\A i \in 1..Len(d) : ~MatchesPark(d[i], q))
       => \A m \in 1..12 : IsZero(Second(res)[m])

\* C1 as stated: every Dataset and every park query
C1_TwelveForEveryQuery ==
  Returned("calculate_monthly_averages")
    => TwelveMonths(result, data, call.park_name)

\* C1 amended: for a park query that is not empty after trimming the call
\* returns the 12 labels and 12 averages (all 0 when no record matches)
\* unless it raises TypeError, which it does only on a matching record with
\* a null Rating; for an empty or whitespace-only query it returns two empty
\* sequences.
C1_TwelveForNonEmptyQuery ==
  Returned("calculate_monthly_averages")
    => IF EmptyQuery(call.park_name)
       THEN result = EmptyPair
       ELSE \/ TwelveMonths(result, data, call.park_name)
            \/ /\ result = Raise("TypeError")
               /\ \E i \in 1..Len(data) :
                    NullRating(data[i]) /\ MatchesPark(data[i], call.park_name)

\* C1 witness: a call that returned 12 averages of which May is (4 + 2) / 2
C1_Witness ==
  /\ Returned("calculate_monthly_averages")
  /\ result.exc = "none"
  /\ Len(Second(result)) = 12
  /\ Second(result)[5] = Float(6, 2)
  /\ \A m \in (1..12) \ {5} : IsZero(Second(result)[m])

(***************************************************************************)
(* C2: the top-level keys of parkLocationAverages are exactly the raw      *)
(* Branch values that occur in the Dataset (missing Branch as "Unknown"),  *)
(* also for a branch all of whose records have an unparseable Rating.      *)
(***************************************************************************)
RawBranch(review) ==
  IF "Branch" \in DOMAIN review THEN review["Branch"] ELSE Unknown

\* the operation can take the review's Rating as an integer
RatingCounts(review) == PyInt(RatingOf(review)).exc = "none"

\* C2 as stated: the call returns a mapping whose keys are the raw Branch
\* values of all the records of the Dataset
C2_KeysAreEveryBranch ==
  Returned("calculate_park_location_averages")
    => /\ result.exc = "none"
       /\ Keys(result.value.items) = {RawBranch(data[i]) : i \in 1..Len(data)}

\* C2 amended: the keys are exactly the raw Branch values of the records
\* whose Rating the operation takes as an integer, each once; a branch all
\* of whose records have an unparseable Rating is not a key.  The call
\* returns unless some record has a null Rating, and then raises TypeError.
C2_KeysAreRatedBranches ==
  Returned("calculate_park_location_averages")
    => IF \E i \in 1..Len(data) : NullRating(data[i])
       THEN result = Raise("TypeError")
       ELSE /\ result.exc = "none"
            /\ Keys(result.value.items) =
                 {RawBranch(data[i]) :
                    i \in {j \in 1..Len(data) : RatingCounts(data[j])}}
            /\ Cardinality(Keys(result.value.items)) = Len(result.value.items)

\* C2 witness: a returned mapping with a key, and a branch of the Dataset
\* that is not among the keys
C2_Witness ==
  /\ Returned("calculate_park_location_averages")
  /\ result.exc = "none"
  /\ Keys(result.value.items) # {}
  /\ \E i \in 1..Len(data) : RawBranch(data[i]) \notin Keys(result.value.items)

(***************************************************************************)
(* C3: no engine operation raises, whatever the Dataset (missing fields,   *)
(* null values of short rows, unparseable Rating or Year_Month) and        *)
(* whatever the query arguments.                                           *)
(***************************************************************************)
\* C3 as stated: every call that has returned did so without an exception
C3_NoOperationRaises == pc = "returned" => result.exc = "none"

(***************************************************************************)
(* C4: every operation reads a field that is missing from a Record as ""   *)
(* or "Unknown" and as no other value: Branch, Reviewer_Location and       *)
(* Year_Month, and also Rating in averageRatingByYear,                     *)
(* topLocationsByRating, monthlyAverages and parkLocationAverages.         *)
(***************************************************************************)
RatingOps ==
  { "calculate_average_rating_by_year", "get_top_locations_by_rating",
    "calculate_monthly_averages", "calculate_park_location_averages" }

\* the Dataset with a missing Rating written as the value v
WithRating(d, v) ==
  [i \in 1..Len(d) |->
     [k \in DOMAIN d[i] \cup {"Rating"} |->
        IF k \in DOMAIN d[i] THEN d[i][k] ELSE v]]

\* the call c made on the Dataset d
ApplyCall(c, d) ==
  CASE c.op = "calculate_average_rating_by_year" ->
         calculate_average_rating_by_year(d, c.park_name, c.year)
    [] c.op = "get_top_locations_by_rating" ->
         get_top_locations_by_rating(d, c.park_name, c.top_n)
    [] c.op = "calculate_monthly_averages" ->
         calculate_monthly_averages(d, c.park_name)
    [] c.op = "calculate_park_location_averages" ->
         calculate_park_location_averages(d)

\* C4 as stated: what is read for a missing field is "" or "Unknown", and
\* the result of a rating operation is the one it has with the missing
\* Rating written as "" or as "Unknown"
C4_MissingReadAsEmptyOrUnknown ==
  /\ \A i \in 1..Len(data) :
       /\ "Branch" \notin DOMAIN data[i]
            => {BranchText(data[i]), BranchKey(data[i])}
                 \subseteq {EmptyStr, Unknown}
       /\ "Reviewer_Location" \notin DOMAIN data[i]
            => {LocationText(data[i]), LocationKey(data[i])}
                 \subseteq {EmptyStr, Unknown}
       /\ "Year_Month" \notin DOMAIN data[i]
            => YearMonthText(data[i]) \in {EmptyStr, Unknown}
  /\ (pc = "returned" /\ call.op \in RatingOps)
       => /\ \A i \in 1..Len(data) :
               "Rating" \notin DOMAIN data[i]
                 => RatingOf(data[i]) \in {EmptyStr, Unknown}
          /\ result \in { ApplyCall(call, WithRating(data, EmptyStr)),
                          ApplyCall(call, WithRating(data, Unknown)) }

(***************************************************************************)
(* C5: topLocationsByRating returns, for every Dataset, park query and     *)
(* every topN, two sequences of equal length, at most topN long; an empty  *)
(* or whitespace-only park query yields two empty sequences.               *)
(***************************************************************************)
\* C5 as stated
C5_AtMostTopNForEveryTopN ==
  Returned("get_top_locations_by_rating")
    => /\ result.exc = "none"
       /\ Len(First(result)) = Len(Second(result))
       /\ Len(First(result)) <= call.top_n.n
       /\ EmptyQuery(call.park_name) => result = EmptyPair

\* C5 amended: for every topN >= 0 the two sequences have equal length, at
\* most topN (for a negative topN they have equal length, and all but the
\* last -topN entries are kept); an empty or whitespace-only park query
\* yields two empty sequences.  The call returns unless it raises
\* TypeError, which it does only on a matching record with a null Rating.
C5_AtMostTopNForNaturalTopN ==
  Returned("get_top_locations_by_rating")
    => IF EmptyQuery(call.park_name)
       THEN result = EmptyPair
       ELSE \/ /\ result.exc = "none"
               /\ Len(First(result)) = Len(Second(result))
               /\ call.top_n.n >= 0
                    => Len(First(result)) <= call.top_n.n
            \/ /\ result = Raise("TypeError")
               /\ \E i \in 1..Len(data) :
                    NullRating(data[i]) /\ MatchesPark(data[i], call.park_name)

\* a review that enters an average of the park query q
Qualifies(review, q) == MatchesPark(review, q) /\ RatingCounts(review)

RawLocation(review) ==
  IF "Reviewer_Location" \in DOMAIN review THEN review["Reviewer_Location"]
  ELSE Unknown

\* C5 witness: topN = 1 cut a list of two or more locations down to one
C5_Witness ==
  /\ Returned("get_top_locations_by_rating")
  /\ result.exc = "none"
  /\ call.top_n.n = 1
  /\ Len(First(result)) = 1
  /\ \E i, j \in 1..Len(data) :
       /\ Qualifies(data[i], call.park_name)
       /\ Qualifies(data[j], call.park_name)
       /\ RawLocation(data[i]) # RawLocation(data[j])

(***************************************************************************)
(* C6: the averages topLocationsByRating returns are non-increasing; two   *)
(* locations of equal average keep the order in which their groups were    *)
(* first encountered in the Dataset; truncation keeps the first topN       *)
(* entries of that order.                                                  *)
(***************************************************************************)
\* the reviews of location loc that enter the averages of park query q
GroupOf(d, q, loc) ==
  {i \in 1..Len(d) : Qualifies(d[i], q) /\ RawLocation(d[i]) = loc}

FirstSeen(d, q, loc) ==
  CHOOSE i \in GroupOf(d, q, loc) : \A j \in GroupOf(d, q, loc) : i <= j

RECURSIVE SumOver(_, _)
SumOver(d, idx) ==
  IF idx = {} THEN 0
  ELSE LET i == CHOOSE j \in idx : TRUE
       IN  PyInt(RatingOf(d[i])).n + SumOver(d, idx \ {i})

\* the indices of the reviews that enter an average of park query q
Qualifying(d, q) == {i \in 1..Len(d) : Qualifies(d[i], q)}

\* the average of every location group among the reviews qual
GroupAverages(d, qual) ==
  [g \in {RawLocation(d[i]) : i \in qual} |->
     LET group == {i \in qual : RawLocation(d[i]) = g}
     IN  Float(SumOver(d, group), Cardinality(group))]

\* the index at which every location group among the reviews qual is first
\* met
FirstEncounters(d, qual) ==
  [g \in {RawLocation(d[i]) : i \in qual} |->
     CHOOSE i \in qual :
        /\ RawLocation(d[i]) = g
        /\ \A j \in qual : RawLocation(d[j]) = g => i <= j]

\* location a stands before location b in the order of the claim
RanksBefore(average, first, a, b) ==
  \/ FloatLess(average[b], average[a])
  \/ /\ ~FloatLess(average[a], average[b])
     /\ first[a] < first[b]

\* the place of location loc in that order, from 1
RankOf(average, first, loc) ==
  1 + Cardinality({g \in DOMAIN average : RanksBefore(average, first, g, loc)})

\* C6: the k-th returned location is the k-th of the order (average
\* descending, ties by first encounter of the group), its average is the
\* group's sum over its count, neighbours are non-increasing, and for
\* topN >= 0 exactly the first min(topN, number of groups) entries are kept
C6_DescendingStableTruncated ==
  (Returned("get_top_locations_by_rating") /\ result.exc = "none"
     /\ ~EmptyQuery(call.park_name))
    => LET locs == First(result)
           avgs == Second(result)
           q == call.park_name
           qual == Qualifying(data, q)
           average == GroupAverages(data, qual)
           first == FirstEncounters(data, qual)
           groups == DOMAIN average
       IN  /\ \A k \in 1..Len(locs) :
                /\ locs[k] \in groups
                /\ RankOf(average, first, locs[k]) = k
                /\ avgs[k] = average[locs[k]]
           /\ \A k \in 1..(Len(avgs) - 1) : ~FloatLess(avgs[k], avgs[k + 1])
           /\ call.top_n.n >= 0
                => Len(locs) = IF call.top_n.n < Cardinality(groups)
                               THEN call.top_n.n ELSE Cardinality(groups)

\* C6 witness: two locations of equal average returned in the order of
\* their first encounter, US before UK, which is not the alphabetical one
C6_Witness ==
  /\ Returned("get_top_locations_by_rating")
  /\ result.exc = "none"
  /\ Len(First(result)) = 2
  /\ ~FloatLess(Second(result)[2], Second(result)[1])
  /\ ~FloatLess(Second(result)[1], Second(result)[2])
  /\ FirstSeen(data, call.park_name, First(result)[1])
       < FirstSeen(data, call.park_name, First(result)[2])
  /\ First(result)[1] = Str(T_US)
  /\ First(result)[2] = Str(T_UK)

(***************************************************************************)
(* C7: averageRatingByYear returns absent exactly when the park query is   *)
(* empty, the year is not exactly 4 digits, or no Record matches the park, *)
(* has a Year_Month starting with the year and an integer-parsable Rating; *)
(* otherwise it returns the sum of the qualifying ratings over their count *)
(* (never 0.0 standing for no data).                                       *)
(***************************************************************************)
\* the review has a Rating, and it parses as an integer
HasParsableRating(review) ==
  /\ "Rating" \in DOMAIN review
  /\ review["Rating"].t = "str"
  /\ PyInt(review["Rating"]).exc = "none"

ValidYear(y) == Len(Strip(PyStr(y))) = 4 /\ AllDigits(Strip(PyStr(y)))

\* the reviews that qualify for the park query q and the year y
YearGroup(d, q, y) ==
  {i \in 1..Len(d) :
     /\ MatchesPark(d[i], q)
     /\ "Year_Month" \in DOMAIN d[i]
     /\ StartsWith(Strip(PyStr(d[i]["Year_Month"])), Strip(PyStr(y)))
     /\ HasParsableRating(d[i])}

\* C7 as stated: the call returns absent exactly when the park query is
\* empty, the year is not 4 digits or no record matches park and year with an
\* integer-parsable Rating, and otherwise the sum of the qualifying ratings
\* over their count
C7_AbsentExactlyWhenNoData ==
  Returned("calculate_average_rating_by_year")
    => LET q == call.park_name
           y == call.year
           group == YearGroup(data, q, y)
       IN  /\ result.exc = "none"
           /\ result.value = NoneVal
                <=> (EmptyQuery(q) \/ ~ValidYear(y) \/ group = {})
           /\ (~EmptyQuery(q) /\ ValidYear(y) /\ group # {})
                => result.value = Float(SumOver(data, group),
                                        Cardinality(group))

(***************************************************************************)
(* C8: a Record whose Rating does not parse as an integer (empty,          *)
(* non-numeric, float-formatted) adds 1 to its branch's count in           *)
(* countPerPark and nothing to the sum or count of any group of            *)
(* averageRatingByYear, topLocationsByRating, monthlyAverages and          *)
(* parkLocationAverages; a group left with count 0 is omitted from the     *)
(* result, not emitted as zero or null.                                    *)
(***************************************************************************)
\* the text is an integer literal: digits, after an optional sign, between
\* optional whitespace
IntegerText(s) ==
  \E lo, hi \in 1..Len(s) :
     /\ lo <= hi
     /\ \A i \in 1..Len(s) :
          \/ i < lo /\ s[i] \in Whitespace
          \/ i > hi /\ s[i] \in Whitespace
          \/ i = lo /\ (IsDigit(s[i]) \/ (s[i] \in {"+", "-"} /\ lo < hi))
          \/ lo < i /\ i <= hi /\ IsDigit(s[i])

\* the review has a Rating text that is no integer
UnparsableRating(review) ==
  /\ "Rating" \in DOMAIN review
  /\ review["Rating"].t = "str"
  /\ ~IntegerText(review["Rating"].s)

\* the Dataset without its i-th record
Without(d, i) == SubSeq(d, 1, i - 1) \o SubSeq(d, i + 1, Len(d))

\* the count a countPerPark result has for a branch, 0 when it has none
CountFor(res, branch) ==
  IF HasKey(res.value.items, branch)
  THEN res.value.items[IndexOf(res.value.items, branch)].count
  ELSE 0

\* the month a review falls in: its Year_Month has exactly one "-" and an
\* integer after it
MonthOf(review) ==
  LET ym == Strip(PyStr(YearMonthText(review)))
      dashes == {k \in 1..Len(ym) : ym[k] = "-"}
      k == CHOOSE j \in dashes : TRUE
      after == SubSeq(ym, k + 1, Len(ym))
  IN  IF Cardinality(dashes) = 1 /\ IntegerText(after)
      THEN PyInt(Str(after)).n
      ELSE 0

\* the reviews that enter the average of month m for the park query q
MonthGroup(d, q, m) ==
  {i \in 1..Len(d) : Qualifies(d[i], q) /\ MonthOf(d[i]) = m}

\* a record with an unparsable Rating counts for its branch and changes no
\* result of a rating operation
UnparsableOnlyCounted ==
  /\ Returned("count_reviews_per_park")
       => \A i \in 1..Len(data) :
            UnparsableRating(data[i])
              => CountFor(result, RawBranch(data[i]))
                   = 1 + CountFor(count_reviews_per_park(Without(data, i)),
                                  RawBranch(data[i]))
  /\ (pc = "returned" /\ call.op \in RatingOps)
       => \A i \in 1..Len(data) :
            UnparsableRating(data[i])
              => result = ApplyCall(call, Without(data, i))

\* no group without a counted record is in the result of averageRatingByYear
\* (absent), topLocationsByRating or parkLocationAverages
EmptyGroupsOmitted ==
  /\ (Returned("calculate_average_rating_by_year") /\ result.exc = "none")
       => (result.value # NoneVal
             => \E i \in 1..Len(data) : Qualifies(data[i], call.park_name))
  /\ (Returned("get_top_locations_by_rating") /\ result.exc = "none")
       => \A k \in 1..Len(First(result)) :
            /\ GroupOf(data, call.park_name, First(result)[k]) # {}
            /\ Second(result)[k].t = "float"
            /\ Second(result)[k].count > 0
  /\ (Returned("calculate_park_location_averages") /\ result.exc = "none")
       => \A b \in 1..Len(result.value.items) :
            LET park == result.value.items[b]
            IN  /\ Len(park.locations) > 0
                /\ \A l \in 1..Len(park.locations) :
                     /\ park.locations[l].avg.count > 0
                     /\ \E i \in 1..Len(data) :
                          /\ RatingCounts(data[i])
                          /\ RawBranch(data[i]) = park.key
                          /\ RawLocation(data[i]) = park.locations[l].key

\* C8 as stated: also monthlyAverages emits no group of count 0
C8_UnparsableSkippedEmptyGroupsOmitted ==
  /\ UnparsableOnlyCounted
  /\ EmptyGroupsOmitted
  /\ (Returned("calculate_monthly_averages") /\ result.exc = "none")
       => \A m \in 1..Len(Second(result)) :
            /\ Second(result)[m].t = "float"
            /\ Second(result)[m].count > 0

\* C8 amended: as stated for the unparsable record and for the groups of
\* averageRatingByYear, topLocationsByRating and parkLocationAverages; but
\* monthlyAverages emits all its 12 month groups, a month of count 0 as the
\* number 0 and every other month as its sum over its count
C8_UnparsableSkippedEmptyMonthsZero ==
  /\ UnparsableOnlyCounted
  /\ EmptyGroupsOmitted
  /\ (Returned("calculate_monthly_averages") /\ result.exc = "none"
        /\ ~EmptyQuery(call.park_name))
       => \A m \in 1..12 :
            LET group == MonthGroup(data, call.park_name, m)
            IN  Second(result)[m] =
                  IF group = {} THEN IntVal(0)
                  ELSE Float(SumOver(data, group), Cardinality(group))

\* C8 witness: a monthlyAverages result over a Dataset that holds a matching
\* record with an unparsable Rating and a matching record that is counted
C8_Witness ==
  /\ Returned("calculate_monthly_averages")
  /\ result.exc = "none"
  /\ ~EmptyQuery(call.park_name)
  /\ \E i \in 1..Len(data) :
       UnparsableRating(data[i]) /\ MatchesPark(data[i], call.park_name)
  /\ \E m \in 1..12 : Second(result)[m].t = "float"
  /\ \E m \in 1..12 : Second(result)[m] = IntVal(0)

(***************************************************************************)
(* C9: filterByPark returns exactly the Records whose trimmed, lower-cased *)
(* Branch contains the trimmed, lower-cased park query, in Dataset order   *)
(* with duplicates kept; an empty or whitespace-only query, and a query    *)
(* that matches no branch, return an empty sequence.                       *)
(***************************************************************************)
\* the positions of the Records the query selects
Selected(d, q) ==
  IF EmptyQuery(q) THEN {}
  ELSE {i \in 1..Len(d) : MatchesPark(d[i], q)}

\* the k-th smallest member of a set of positions
KthOf(idx, k) == CHOOSE i \in idx : Cardinality({j \in idx : j <= i}) = k

\* C9: the call returns the list of the selected Records (those whose
\* normalised Branch contains the normalised, non-empty query), each once per
\* position, in Dataset order; the list is empty when nothing is selected
C9_FilterIsOrderedSubsequence ==
  Returned("filter_reviews_by_park")
    => LET idx == Selected(data, call.park_name)
       IN  /\ result.exc = "none"
           /\ result.value.t = "list"
           /\ Len(result.value.items) = Cardinality(idx)
           /\ \A k \in 1..Cardinality(idx) :
                result.value.items[k] = data[KthOf(idx, k)]

\* C9 witness: of three Records the first and the last, which are equal,
\* are returned in that order and the one between them is left out
C9_Witness ==
  /\ Returned("filter_reviews_by_park")
  /\ Len(data) = 3
  /\ Selected(data, call.park_name) = {1, 3}
  /\ result.value.items = <<data[1], data[3]>>
  /\ data[1] = data[3]
  /\ "Branch" \in DOMAIN data[2] /\ data[2]["Branch"].t = "str"

(***************************************************************************)
(* C10: load is all-or-nothing: it returns the complete sequence of the    *)
(* rows of the file, in file order, or, on any read or parse error at any  *)
(* point, an empty Dataset; it never raises and never returns a partially  *)
(* populated Dataset.                                                      *)
(***************************************************************************)
\* the Records of all the rows of the file, in file order
AllRecords(f) ==
  [i \in 1..Len(f.rows) |-> RowDict(f.header, f.rows[i])]

\* C10: load_data returns, without raising, all the Records of the file in
\* file order when no error occurs and the empty Dataset when one occurs, so
\* the Dataset the queries see is complete or empty
C10_LoadAllOrNothing ==
  /\ Returned("load_data")
       => /\ result = Ret(List(data))
          /\ data = IF call.error = "none" THEN AllRecords(file) ELSE << >>
  /\ pc \in {"ready", "returned"}
       => (Len(data) = 0 \/ data = AllRecords(file))

\* C10 witness: an error raised after two or more rows had been read, and
\* the empty Dataset returned
C10_Witness ==
  /\ Returned("load_data")
  /\ call.error = "Exception"
  /\ call.rows_read >= 2
  /\ data = << >>

(***************************************************************************)
(* C12: countPerPark puts every Record into exactly one group keyed by its *)
(* raw, non-normalised Branch (missing Branch as "Unknown"), so the sum of *)
(* all returned counts equals the number of Records of the Dataset.        *)
(***************************************************************************)
RECURSIVE SumCounts(_)
SumCounts(items) ==
  IF Len(items) = 0 THEN 0
  ELSE items[1].count + SumCounts(Tail(items))

\* C12: the call returns a mapping in which every raw Branch value of the
\* Dataset is a key exactly once, the count of a key is the number of
\* Records with that raw Branch, and the counts add up to the Dataset size
C12_CountsPartitionDataset ==
  Returned("count_reviews_per_park")
    => /\ result.exc = "none"
       /\ LET items == result.value.items
          IN  /\ Cardinality(Keys(items)) = Len(items)
              /\ \A i \in 1..Len(data) : RawBranch(data[i]) \in Keys(items)
              /\ \A k \in 1..Len(items) :
                   items[k].count =
                     Cardinality({i \in 1..Len(data) :
                                    RawBranch(data[i]) = items[k].key})
              /\ SumCounts(items) = Len(data)

\* C12 witness: three Records in two groups whose raw keys "Ab" and "cab "
\* differ although both contain the same normalised text
C12_Witness ==
  /\ Returned("count_reviews_per_park")
  /\ Len(data) = 3
  /\ Len(result.value.items) = 2
  /\ Keys(result.value.items) = {Str(T_Ab), Str(T_cab)}
  /\ \E k \in 1..2 : result.value.items[k].count = 2

(***************************************************************************)
(* C13: countByParkAndLocation returns the number of Records whose         *)
(* normalised Branch contains the normalised park query and whose          *)
(* normalised Reviewer_Location contains the normalised location query; if *)
(* either query is empty or whitespace-only the result is 0.               *)
(***************************************************************************)
\* the review's Reviewer_Location, as text, contains the trimmed, lower-cased
\* query
MatchesLocation(review, q) ==
  LET location == IF "Reviewer_Location" \in DOMAIN review
                  THEN PyStr(review["Reviewer_Location"])
                  ELSE << >>
  IN  Contains(Lower(Strip(location)), Lower(Strip(PyStr(q))))

\* C13: the call returns 0 when either query is empty after trimming, and
\* otherwise the number of Records that match the park query in Branch and
\* the location query in Reviewer_Location
C13_CountsBothMatches ==
  Returned("count_reviews_by_park_and_location")
    => result =
         Ret(IntVal(
           IF EmptyQuery(call.park_name) \/ EmptyQuery(call.location) THEN 0
           ELSE Cardinality({i \in 1..Len(data) :
                               /\ MatchesPark(data[i], call.park_name)
                               /\ MatchesLocation(data[i], call.location)})))

\* C13 witness: a count of 1 over a Dataset in which a second Record matches
\* the park but not the location, and a third the location but not the park
C13_Witness ==
  /\ Returned("count_reviews_by_park_and_location")
  /\ result = Ret(IntVal(1))
  /\ \E i, j \in 1..Len(data) :
       /\ MatchesPark(data[i], call.park_name)
       /\ ~MatchesLocation(data[i], call.location)
       /\ ~MatchesPark(data[j], call.park_name)
       /\ MatchesLocation(data[j], call.location)

(***************************************************************************)
(* C11: no query operation modifies the Dataset, a Record of it or any     *)
(* state shared between calls (each call uses only its own local           *)
(* accumulators); so for any interleaving of concurrent query calls on the *)
(* same Dataset every call returns the result it returns when it runs      *)
(* alone, and the Dataset is unchanged afterwards.                         *)
(***************************************************************************)
\* the result of the call c when it runs alone on the Dataset d
RunAlone(c, d) ==
  CASE c.op = "filter_reviews_by_park" ->
         filter_reviews_by_park(d, c.park_name)
    [] c.op = "count_reviews_by_park_and_location" ->
         count_reviews_by_park_and_location(d, c.park_name, c.location)
    [] c.op = "calculate_average_rating_by_year" ->
         calculate_average_rating_by_year(d, c.park_name, c.year)
    [] c.op = "count_reviews_per_park" -> count_reviews_per_park(d)
    [] c.op = "get_top_locations_by_rating" ->
         get_top_locations_by_rating(d, c.park_name, c.top_n)
    [] c.op = "calculate_monthly_averages" ->
         calculate_monthly_averages(d, c.park_name)
    [] c.op = "calculate_park_location_averages" ->
         calculate_park_location_averages(d)

\* every call that has returned has the result it has when run alone
ReturnsAsAlone ==
  \A t \in Threads :
     threads[t].pc = "done"
       => threads[t].result = RunAlone(threads[t].call, data)

\* a step taken while queries may run leaves the file and the Dataset, with
\* all its Records, as they were, and changes the frame of one thread only
StepIsLocal ==
  pc = "ready"
    => /\ data' = data
       /\ file' = file
       /\ \A t, u \in Threads :
            (threads'[t] # threads[t] /\ u # t) => threads'[u] = threads[u]

\* C11: under every interleaving of the steps of the concurrent calls, a
\* call returns the result it returns alone on the Dataset, and no step
\* changes the Dataset or the frame of another call
C11_ConcurrentCallsAsAlone == []ReturnsAsAlone /\ [][StepIsLocal]_vars

\* C11 witness: two calls of count_reviews_per_park on a Dataset of three
\* Records, one returned with all three counted while the other is in the
\* middle of its loop with one Record counted
C11_Witness ==
  /\ Len(data) = 3
  /\ threads["t1"].pc = "loop"
  /\ threads["t1"].call.op = "count_reviews_per_park"
  /\ threads["t1"].i = 1
  /\ threads["t1"].local["count_reviews_per_park"] = PerParkLoop(data, 1)
  /\ threads["t2"].pc = "done"
  /\ threads["t2"].call.op = "count_reviews_per_park"
  /\ threads["t2"].result = Ret(Dict(PerParkLoop(data, 3)))

====
